---- MODULE Spec2Model ----
(***************************************************************************)
(* Model of src/ui.rs of tfex-rs: the draw cycle (draw) and the directory  *)
(* panel (draw_file_list).                                                  *)
(*                                                                          *)
(* Strings are sequences of one-character strings, so that split, format!   *)
(* and to_string are computed and not assumed.  An Option<T> is a sequence  *)
(* of length 0 (None) or 1 (Some).  u16 arithmetic keeps its width: with    *)
(* overflow checks (a debug build) an overflow panics, without them (a      *)
(* release build) it wraps modulo 2^16.                                     *)
(***************************************************************************)
EXTENDS Integers, Sequences, FiniteSets

VARIABLES app, area, overflow_checks, panel, last, tick, new_error,
          oor_policy

vars == <<app, area, overflow_checks, panel, last, tick, new_error,
          oor_policy>>

(* app             the App struct: current_directory, directory_contents,  *)
(*                 selection_index, error, command_buffer                  *)
(* area            the rectangle draw_file_list is given (chunks[0])       *)
(* overflow_checks TRUE in a build that panics on integer overflow         *)
(* panel           what a direct call of draw_file_list did                *)
(* last            what the most recent call of draw did: value returned,  *)
(*                 calls made, footer drawn, outcome of its panel          *)
(* tick            flips at every call of draw                             *)
(* new_error       the application set the error field since the last draw *)
(* oor_policy      history: what calls with an out-of-range selection did  *)

---------------------------------------------------------------------------
(* Bounds of the model                                                     *)

MaxFiles == 3
MaxHeight == 5
MaxWidth == 9
MaxPathLen == 2
MaxFormatFiles == 2
MaxDrawFiles == 2

---------------------------------------------------------------------------
(* Values                                                                  *)

U16Modulus == 65536
BorderRows == 2
SizeColumnInset == 2
FullPercent == 100
MinContentRows == 3

None == <<>>
Some(v) == <<v>>
IsSome(o) == Len(o) = 1
Unwrap(o) == o[1]

Min(a, b) == IF a <= b THEN a ELSE b
SetMin(S) == CHOOSE m \in S : \A n \in S : m <= n
SetMax(S) == CHOOSE m \in S : \A n \in S : m >= n

FILE_ICON == "U+1F4C4"
FOLDER_ICON == "U+1F4C1"
NEWLINE == "\n"
BOX_DASH == "U+2500"

Rect(x, y, width, height) == [x |-> x, y |-> y, width |-> width, height |-> height]

StyleDefault == [modifier |-> "empty", fg |-> "Reset"]
StyleSelected == [modifier |-> "BOLD", fg |-> "Indexed(2)"]
StyleError == [modifier |-> "empty", fg |-> "Red"]

TextRaw(s) == [kind |-> "Raw", content |-> s, style |-> StyleDefault]
TextStyled(s, st) == [kind |-> "Styled", content |-> s, style |-> st]

File(path, size) == [kind |-> "File", path |-> path, size |-> size]
Directory(path) == [kind |-> "Directory", path |-> path, size |-> 0]

PathBuf(s, utf8) == [text |-> s, utf8 |-> utf8]

---------------------------------------------------------------------------
(* u16 arithmetic                                                          *)

SubOverflows(a, b) == a < b
WrappingSub(a, b) == (a - b + U16Modulus) % U16Modulus
AddOverflows(a, b) == a + b >= U16Modulus
WrappingAdd(a, b) == (a + b) % U16Modulus

(* (n as f32 / d as f32).ceil() as u16: a division by 0.0 gives +inf (NaN  *)
(* for 0/0), and the cast saturates (+inf to 65535, NaN to 0).             *)
CeilDivAsU16(n, d) ==
    IF d = 0
    THEN IF n = 0 THEN 0 ELSE U16Modulus - 1
    ELSE Min((n + d - 1) \div d, U16Modulus - 1)

---------------------------------------------------------------------------
(* Strings                                                                 *)

Digits == <<"0", "1", "2", "3", "4", "5", "6", "7", "8", "9">>

RECURSIVE to_string(_)
to_string(n) ==
    IF n < 10 THEN <<Digits[n + 1]>>
    ELSE to_string(n \div 10) \o <<Digits[(n % 10) + 1]>>

RECURSIVE Split(_, _)
Split(s, sep) ==
    LET hits == {k \in 1..Len(s) : s[k] = sep}
    IN  IF hits = {} THEN <<s>>
        ELSE LET k == SetMin(hits)
             IN  <<SubSeq(s, 1, k - 1)>> \o Split(SubSeq(s, k + 1, Len(s)), sep)

ToStr(path) == IF path.utf8 THEN Some(path.text) ELSE None

Title(current_dir) == <<"Contents", BOX_DASH>> \o Unwrap(ToStr(current_dir))

---------------------------------------------------------------------------
(* draw_file_list: formatting                                              *)

FormatNameFirstSegment(file) ==
    LET split == Split(file.path, "/")
        icon == IF file.kind = "File" THEN FILE_ICON ELSE FOLDER_ICON
    IN  TextRaw(<<icon, " ">> \o split[1] \o <<NEWLINE>>)

FormatName(file) ==
    LET split == Split(file.path, "/")
        icon == IF file.kind = "File" THEN FILE_ICON ELSE FOLDER_ICON
    IN  TextRaw(<<icon, " ">> \o split[Len(split)] \o <<NEWLINE>>)

FormatSize(file) ==
    IF file.kind = "File"
    THEN TextRaw(to_string(file.size) \o <<"K", "B", NEWLINE>>)
    ELSE TextRaw(<<NEWLINE>>)

FormatNames(files) == [k \in 1..Len(files) |-> FormatName(files[k])]
FormatSizes(files) == [k \in 1..Len(files) |-> FormatSize(files[k])]

---------------------------------------------------------------------------
(* draw_file_list: highlight                                               *)

Insert(seq, index, elem) ==
    SubSeq(seq, 1, index) \o <<elem>> \o SubSeq(seq, index + 1, Len(seq))

Remove(seq, index) ==
    SubSeq(seq, 1, index) \o SubSeq(seq, index + 2, Len(seq))

SelectedText(text) == IF text.kind = "Raw" THEN text.content ELSE <<>>

HighlightWrongRemove(names, selection_index) ==
    Remove(Insert(names, selection_index,
                  TextStyled(SelectedText(names[selection_index + 1]), StyleSelected)),
           selection_index)

Highlight(names, selection_index) ==
    Remove(Insert(names, selection_index,
                  TextStyled(SelectedText(names[selection_index + 1]), StyleSelected)),
           selection_index + 1)

---------------------------------------------------------------------------
(* draw_file_list: columns                                                 *)

InnerRectOverflows(r) ==
    \/ AddOverflows(r.x, 1)
    \/ AddOverflows(r.y, 1)
    \/ SubOverflows(r.width, 1)
    \/ SubOverflows(r.height, 1)

InnerRect(r) ==
    Rect(WrappingAdd(r.x, 1), WrappingAdd(r.y, 1),
         WrappingSub(r.width, 1), WrappingSub(r.height, 1))

RowsOverflows(r) == SubOverflows(r.height, BorderRows)
Rows(r) == WrappingSub(r.height, BorderRows)

Columns(len, r) == CeilDivAsU16(len, Rows(r))

ColumnSize(columns) == FullPercent \div columns

(* Layout::split of inner_rect into `columns` chunks of column_size        *)
(* percent each: every chunk gets that share of the width, rounded down,   *)
(* and the last chunk is extended to the right edge of inner_rect.         *)
ChunkWidth(inner, columns, i) ==
    LET share == (inner.width * ColumnSize(columns)) \div FullPercent
    IN  IF i = columns - 1
        THEN IF inner.width >= i * share THEN inner.width - i * share ELSE 0
        ELSE share

From(i, height) == i * height

To(i, height, len) ==
    IF i * height + height >= len THEN len ELSE i * height + height

SliceOutOfRange(i, height, len) ==
    \/ From(i, height) > To(i, height, len)
    \/ To(i, height, len) > len

SizeRectOverflows(inner, columns, i) ==
    SubOverflows(ChunkWidth(inner, columns, i), SizeColumnInset)

(* The entries the paragraphs of the columns in `cols` put on the frame,   *)
(* column after column, each column's slice in order.                      *)
Rendered(seq, cols, height) ==
    LET len == Len(seq)
        nonEmpty == {i \in cols : From(i, height) < To(i, height, len)}
        cells == UNION {{<<i, j>> : j \in (From(i, height) + 1)..To(i, height, len)}
                        : i \in nonEmpty}
        Before(p, q) == p[1] < q[1] \/ (p[1] = q[1] /\ p[2] < q[2])
        Nth(k) == CHOOSE p \in cells : Cardinality({q \in cells : Before(q, p)}) = k - 1
    IN  [k \in 1..Cardinality(cells) |-> seq[Nth(k)[2]]]

---------------------------------------------------------------------------
(* draw_file_list                                                          *)

NotCalled ==
    [outcome |-> "not_called", panic_at |-> "", border |-> FALSE, title |-> <<>>,
     inner_rect |-> None, names |-> <<>>, sizes |-> <<>>, rows |-> None,
     columns |-> None, bounds |-> {}, rendered_columns |-> 0,
     shown_names |-> <<>>, shown_sizes |-> <<>>]

Panic(p, at) == [p EXCEPT !.outcome = "panic", !.panic_at = at]
Return(p) == [p EXCEPT !.outcome = "returned"]

ColumnFails(p, r, checks, i) ==
    \/ SliceOutOfRange(i, Rows(r), Len(p.names))
    \/ checks /\ SizeRectOverflows(Unwrap(p.inner_rect), Columns(Len(p.names), r), i)

RenderColumns(p, r, checks) ==
    LET len == Len(p.names)
        height == Rows(r)
        columns == Columns(len, r)
        q == [p EXCEPT !.rows = Some(height), !.columns = Some(columns)]
        Shown(nameCols, sizeCols) ==
            [q EXCEPT !.bounds = {<<From(i, height), To(i, height, len)>> : i \in nameCols},
                      !.rendered_columns = Cardinality(sizeCols),
                      !.shown_names = Rendered(p.names, nameCols, height),
                      !.shown_sizes = Rendered(p.sizes, sizeCols, height)]
    IN  IF \E i \in 0..(columns - 1) : ColumnFails(p, r, checks, i)
        THEN LET f == CHOOSE i \in 0..(columns - 1) :
                         /\ ColumnFails(p, r, checks, i)
                         /\ \A j \in 0..(i - 1) : ~ColumnFails(p, r, checks, j)
             IN  IF SliceOutOfRange(f, height, len)
                 THEN Panic(Shown(0..(f - 1), 0..(f - 1)), "slice")
                 ELSE Panic(Shown(0..f, 0..(f - 1)), "size_rect")
        ELSE Return(Shown(0..(columns - 1), 0..(columns - 1)))

DrawFileList(r, files, selected_file, current_dir, checks) ==
    IF checks /\ InnerRectOverflows(r) THEN Panic(NotCalled, "inner_rect")
    ELSE IF ToStr(current_dir) = None THEN Panic(NotCalled, "title")
    ELSE
    LET bordered == [NotCalled EXCEPT !.inner_rect = Some(InnerRect(r)),
                                      !.border = TRUE,
                                      !.title = Title(current_dir)]
    IN  IF Len(files) = 0 THEN Return(bordered)
        ELSE
        LET formatted == [bordered EXCEPT !.names = FormatNames(files),
                                          !.sizes = FormatSizes(files)]
        IN  IF IsSome(selected_file) /\ Unwrap(selected_file) >= Len(files)
            THEN Panic(formatted, "selection")
            ELSE
            LET highlighted ==
                    IF IsSome(selected_file)
                    THEN [formatted EXCEPT
                            !.names = Highlight(formatted.names, Unwrap(selected_file))]
                    ELSE formatted
            IN  IF checks /\ RowsOverflows(r) THEN Panic(highlighted, "rows")
                ELSE RenderColumns(highlighted, r, checks)

---------------------------------------------------------------------------
(* draw                                                                    *)

GetCommandBufferAsString(a) == a.command_buffer

DrawError(err) ==
    [title |-> "Error", text |-> TextStyled(err, StyleError), block_style |-> StyleError]

DrawCommandBuffer(command_string) ==
    [title |-> "Command", text |-> TextRaw(command_string), block_style |-> StyleDefault]

NoFooter == [title |-> "", text |-> TextRaw(<<>>), block_style |-> StyleDefault]

HideCursorReturnsEarly(io) == io = "hide_cursor_fails"

DrawNeverReturnsEarly(io) == FALSE

DrawReturnsEarly(io) == io = "draw_fails"

ClearErrorForgotten(a) == a

ClearErrorAndCommand(a) == [a EXCEPT !.error = None, !.command_buffer = <<>>]

ClearError(a) == [a EXCEPT !.error = None]

(* One call of draw.  io is what the terminal does in this cycle: "ok",    *)
(* "hide_cursor_fails" or "draw_fails".  The result holds the value        *)
(* returned, the calls made in order, the footer box drawn, and the        *)
(* application state the call leaves.                                      *)
draw(a, r, io, checks) ==
    LET command_string == GetCommandBufferAsString(a)
        failed == [ret |-> "Err", ops |-> <<"hide_cursor">>, footer |-> NoFooter,
                   panel |-> NotCalled, app |-> a]
    IN  IF HideCursorReturnsEarly(io) THEN failed
        ELSE
        LET p == DrawFileList(r, a.directory_contents, a.selection_index,
                              a.current_directory, checks)
            reset_error == IsSome(a.error)
            footer == IF IsSome(a.error) THEN DrawError(Unwrap(a.error))
                      ELSE DrawCommandBuffer(command_string)
            footer_op == IF IsSome(a.error) THEN "draw_error" ELSE "draw_command_buffer"
            drawn == <<"hide_cursor", "draw_file_list", footer_op>>
        IN  IF p.outcome = "panic"
            THEN [ret |-> "panic", ops |-> <<"hide_cursor", "draw_file_list">>,
                  footer |-> NoFooter, panel |-> p, app |-> a]
            ELSE IF DrawReturnsEarly(io)
            THEN [ret |-> "Err", ops |-> drawn, footer |-> footer, panel |-> p, app |-> a]
            ELSE IF reset_error
            THEN [ret |-> "Ok", ops |-> Append(drawn, "sleep"), footer |-> footer,
                  panel |-> p, app |-> ClearError(a)]
            ELSE [ret |-> "Ok", ops |-> drawn, footer |-> footer, panel |-> p, app |-> a]

(* What a call of draw_file_list with an out-of-range selection did:       *)
(* failed fast (the index panicked) or skipped the emphasis silently.      *)
OutOfRangePolicy(files, selected_file, p) ==
    IF IsSome(selected_file) /\ Unwrap(selected_file) >= Len(files)
    THEN IF p.outcome = "panic" /\ p.panic_at = "selection" THEN {"fail_fast"}
         ELSE IF p.outcome = "returned" THEN {"skip"}
         ELSE {}
    ELSE {}

---------------------------------------------------------------------------
(* Inputs                                                                  *)

Files ==
    {File(<<"d", "/", "a">>, 7), Directory(<<"b">>)}

RECURSIVE SeqsUpTo(_, _)
SeqsUpTo(S, n) ==
    IF n = 0 THEN {<<>>}
    ELSE LET shorter == SeqsUpTo(S, n - 1)
         IN  shorter \cup {Append(s, e) : s \in {t \in shorter : Len(t) = n - 1}, e \in S}

Origins == {<<0, 0>>, <<2, 1>>}
Widths == {0, 1, 2, MaxWidth}
Rects ==
    {Rect(0, 0, MaxWidth, h) : h \in 0..MaxHeight}
        \cup {Rect(o[1], o[2], w, MinContentRows + 1) : o \in Origins, w \in Widths}
        \cup {Rect(0, 0, 0, 0)}
HomePath == <<"/", "h">>
Paths == {PathBuf(HomePath, TRUE), PathBuf(HomePath, FALSE)}

PathChars == {"/", "a"}
FormatPaths == SeqsUpTo(PathChars, MaxPathLen)
FormatSizesKB == {0, 12}
FormatFiles ==
    {File(p, n) : p \in FormatPaths, n \in FormatSizesKB}
        \cup {Directory(p) : p \in FormatPaths}

DrawAreas == {Rect(0, 0, MaxWidth, h) : h \in {MinContentRows, MinContentRows + 1}}
ErrorMessages == {<<"E">>}
CommandBuffers == {<<>>, <<"q">>}

NoCycle ==
    [ret |-> "none", failed_at |-> "none", ops |-> <<>>, footer |-> NoFooter,
     panel_outcome |-> "not_called", panic_at |-> "", follows_error |-> FALSE]

---------------------------------------------------------------------------
(* draw_file_list called on its own, on every input                        *)

CallDrawFileList ==
    /\ panel.outcome = "not_called"
    /\ panel' = DrawFileList(area, app.directory_contents, app.selection_index,
                             app.current_directory, overflow_checks)
    /\ oor_policy' = oor_policy \cup
                       OutOfRangePolicy(app.directory_contents, app.selection_index, panel')
    /\ UNCHANGED <<app, area, overflow_checks, last, tick, new_error>>

InitFileList ==
    /\ app \in [current_directory : Paths,
                directory_contents : SeqsUpTo(Files, MaxFiles),
                selection_index : {None} \cup {Some(i) : i \in 0..MaxFiles},
                error : {None},
                command_buffer : {<<>>}]
    /\ area \in Rects
    /\ overflow_checks \in BOOLEAN
    /\ panel = NotCalled
    /\ last = NoCycle
    /\ tick = 0
    /\ new_error = FALSE
    /\ oor_policy = {}

NextFileList == CallDrawFileList

SpecFileList == InitFileList /\ [][NextFileList]_vars

InitFormat ==
    /\ app \in [current_directory : {PathBuf(HomePath, TRUE)},
                directory_contents : SeqsUpTo(FormatFiles, MaxFormatFiles),
                selection_index : {None},
                error : {None},
                command_buffer : {<<>>}]
    /\ area = Rect(0, 0, MaxWidth, MaxHeight)
    /\ overflow_checks \in BOOLEAN
    /\ panel = NotCalled
    /\ last = NoCycle
    /\ tick = 0
    /\ new_error = FALSE
    /\ oor_policy = {}

NextFormat == CallDrawFileList

SpecFormat == InitFormat /\ [][NextFormat]_vars

---------------------------------------------------------------------------
(* The draw cycle, with the application around it                          *)

Draw(io) ==
    /\ last.ret # "panic"
    /\ LET d == draw(app, area, io, overflow_checks)
       IN  /\ app' = d.app
           /\ last' = [ret |-> d.ret,
                       failed_at |-> IF io = "hide_cursor_fails" THEN "hide_cursor"
                                     ELSE IF io = "draw_fails" /\ d.ret # "panic"
                                          THEN "draw" ELSE "none",
                       ops |-> d.ops,
                       footer |-> d.footer,
                       panel_outcome |-> d.panel.outcome,
                       panic_at |-> d.panel.panic_at,
                       follows_error |-> /\ last.ret = "Ok"
                                         /\ last.footer.title = "Error"
                                         /\ ~new_error]
           /\ oor_policy' = oor_policy \cup
                              OutOfRangePolicy(app.directory_contents,
                                               app.selection_index, d.panel)
    /\ tick' = 1 - tick
    /\ new_error' = FALSE
    /\ UNCHANGED <<area, overflow_checks, panel>>

SetError(msg) ==
    /\ last.ret # "panic"
    /\ app' = [app EXCEPT !.error = Some(msg)]
    /\ new_error' = TRUE
    /\ UNCHANGED <<area, overflow_checks, panel, last, tick, oor_policy>>

TypeCommand(buffer) ==
    /\ last.ret # "panic"
    /\ app' = [app EXCEPT !.command_buffer = buffer]
    /\ UNCHANGED <<area, overflow_checks, panel, last, tick, new_error, oor_policy>>

Select(index) ==
    /\ last.ret # "panic"
    /\ app' = [app EXCEPT !.selection_index = index]
    /\ UNCHANGED <<area, overflow_checks, panel, last, tick, new_error, oor_policy>>

LoadDirectory(files) ==
    /\ last.ret # "panic"
    /\ app' = [app EXCEPT !.directory_contents = files]
    /\ UNCHANGED <<area, overflow_checks, panel, last, tick, new_error, oor_policy>>

Resize(r) ==
    /\ last.ret # "panic"
    /\ area' = r
    /\ UNCHANGED <<app, overflow_checks, panel, last, tick, new_error, oor_policy>>

Init ==
    /\ app = [current_directory |-> PathBuf(HomePath, TRUE),
              directory_contents |-> <<>>,
              selection_index |-> None,
              error |-> None,
              command_buffer |-> <<>>]
    /\ area \in DrawAreas
    /\ overflow_checks \in BOOLEAN
    /\ panel = NotCalled
    /\ last = NoCycle
    /\ tick = 0
    /\ new_error = FALSE
    /\ oor_policy = {}

Next ==
    \/ \E io \in {"ok", "hide_cursor_fails", "draw_fails"} : Draw(io)
    \/ \E msg \in ErrorMessages : SetError(msg)
    \/ \E buffer \in CommandBuffers : TypeCommand(buffer)
    \/ \E index \in {None} \cup {Some(i) : i \in 0..(MaxDrawFiles - 1)} : Select(index)
    \/ \E files \in SeqsUpTo(Files, MaxDrawFiles) : LoadDirectory(files)
    \/ \E r \in DrawAreas : Resize(r)

Spec == Init /\ [][Next]_vars

---------------------------------------------------------------------------
(* Vocabulary of the properties                                            *)

Range(seq) == {seq[k] : k \in 1..Len(seq)}

Called == panel.outcome # "not_called"

(* The substring after the last '/' of a path; the whole path without one. *)
LastSegment(path) ==
    LET slashes == {k \in 1..Len(path) : path[k] = "/"}
    IN  IF slashes = {} THEN path
        ELSE SubSeq(path, SetMax(slashes) + 1, Len(path))

DigitValue(c) == CHOOSE d \in 0..9 : Digits[d + 1] = c

RECURSIVE DecimalValue(_)
DecimalValue(ds) ==
    IF Len(ds) = 0 THEN 0
    ELSE 10 * DecimalValue(SubSeq(ds, 1, Len(ds) - 1)) + DigitValue(ds[Len(ds)])

IsDecimalOf(ds, n) ==
    /\ Len(ds) >= 1
    /\ \A k \in 1..Len(ds) : ds[k] \in Range(Digits)
    /\ Len(ds) > 1 => ds[1] # "0"
    /\ DecimalValue(ds) = n

Icon(file) == IF file.kind = "File" THEN FILE_ICON ELSE FOLDER_ICON

(* The labels of entry k, with `ending` after the name and after the size. *)
LabelsAre(k, ending, directorySize) ==
    LET file == app.directory_contents[k]
        name == panel.names[k]
        size == panel.sizes[k]
    IN  /\ name.kind = "Raw"
        /\ name.content = <<Icon(file), " ">> \o LastSegment(file.path) \o ending
        /\ size.kind = "Raw"
        /\ IF file.kind = "File"
           THEN /\ Len(size.content) >= 2 + Len(ending)
                /\ SubSeq(size.content, Len(size.content) - Len(ending) - 1,
                          Len(size.content)) = <<"K", "B">> \o ending
                /\ IsDecimalOf(SubSeq(size.content, 1,
                                      Len(size.content) - Len(ending) - 2), file.size)
           ELSE size.content = directorySize

HighlightDone ==
    /\ Called
    /\ app.directory_contents # <<>>
    /\ panel.panic_at \notin {"inner_rect", "title", "selection"}

DrawStep == tick' # tick

Untouched(field) == app'[field] = app[field]

---------------------------------------------------------------------------
(* C1: a cycle that starts with the error field set and completes draws    *)
(* the Error box with that message, not the Command box, and leaves the    *)
(* error field cleared; the completed cycle after it, when no new error    *)
(* was set in between, draws the Command box with the command buffer text. *)
C1_ErrorShownOneCycle ==
    [][(DrawStep /\ last'.ret = "Ok") =>
          /\ IsSome(app.error) =>
                /\ last'.footer.title = "Error"
                /\ last'.footer.text.content = Unwrap(app.error)
                /\ "draw_error" \in Range(last'.ops)
                /\ "draw_command_buffer" \notin Range(last'.ops)
                /\ app'.error = None
          /\ last'.follows_error =>
                /\ last'.footer.title = "Command"
                /\ last'.footer.text.content = app.command_buffer
                /\ "draw_command_buffer" \in Range(last'.ops)
                /\ "draw_error" \notin Range(last'.ops)]_vars

C1_Witness ==
    /\ last.ret = "Ok"
    /\ last.follows_error
    /\ last.footer.title = "Command"
    /\ last.footer.text.content = <<"q">>
    /\ app.error = None

(* C2: on a non-empty list, whatever the viewport height, the slices of    *)
(* the columns concatenated in column order are the full name list and     *)
(* the full size list, and every slice bound lies within the list.         *)
C2_SlicesCoverList ==
    (panel.outcome = "returned" /\ app.directory_contents # <<>>) =>
        /\ panel.shown_names = panel.names
        /\ panel.shown_sizes = panel.sizes
        /\ \A b \in panel.bounds : 0 <= b[1] /\ b[1] <= b[2] /\ b[2] <= Len(panel.names)

(* C3: on a non-empty list, for every panel height, the rows per column    *)
(* are max(1, height - 2), the column count is ceil(len / rows), between   *)
(* 1 and len, and computing it neither underflows nor divides by zero.     *)
C3_RowsClampedColumnsCeil ==
    HighlightDone =>
        LET len == Len(app.directory_contents)
            rows == IF area.height - 2 >= 1 THEN area.height - 2 ELSE 1
        IN  /\ panel.panic_at # "rows"
            /\ panel.rows = Some(rows)
            /\ panel.columns = Some((len + rows - 1) \div rows)
            /\ Unwrap(panel.columns) >= 1
            /\ Unwrap(panel.columns) <= len

(* C4: after the highlight step with a selection index inside the list,    *)
(* the name list keeps its length, exactly one entry is styled, at that    *)
(* index and with the text of the entry formatted there, and every other   *)
(* entry is the formatted entry of its position; without a selection no    *)
(* entry is styled.                                                        *)
C4_SingleEmphasis ==
    HighlightDone =>
        LET original == FormatNames(app.directory_contents)
            styled == {k \in 1..Len(panel.names) : panel.names[k].kind = "Styled"}
        IN  /\ Len(panel.names) = Len(app.directory_contents)
            /\ IF IsSome(app.selection_index)
               THEN LET at == Unwrap(app.selection_index) + 1
                    IN  /\ styled = {at}
                        /\ panel.names[at].content = original[at].content
                        /\ panel.names[at].style = StyleSelected
                        /\ \A k \in 1..Len(panel.names) :
                              k # at => panel.names[k] = original[k]
               ELSE /\ styled = {}
                    /\ panel.names = original

C4_Witness ==
    /\ panel.outcome = "returned"
    /\ Len(app.directory_contents) = 3
    /\ app.selection_index = Some(1)
    /\ panel.names[2].kind = "Styled"
    /\ panel.names[1].kind = "Raw"
    /\ panel.names[3].kind = "Raw"

(* C5: on an empty list, for every viewport rectangle (zero width or zero  *)
(* height included) and every selection index, draw_file_list returns      *)
(* without a panic, having drawn the border and title and no column.       *)
C5_EmptyListNeverPanics ==
    (/\ Called
     /\ app.directory_contents = <<>>
     /\ IsSome(ToStr(app.current_directory))) =>
        /\ panel.outcome = "returned"
        /\ panel.border
        /\ panel.rendered_columns = 0
        /\ panel.shown_names = <<>>
        /\ panel.shown_sizes = <<>>

(* C6: a draw cycle leaves the directory entries, the selection index,     *)
(* the current directory and the command buffer as they were, on every     *)
(* path, and changes the error field only from set to cleared.             *)
C6_OnlyErrorCleared ==
    [][DrawStep =>
          /\ Untouched("directory_contents")
          /\ Untouched("selection_index")
          /\ Untouched("current_directory")
          /\ Untouched("command_buffer")
          /\ \/ Untouched("error")
             \/ IsSome(app.error) /\ app'.error = None]_vars

C6_Witness ==
    /\ last.ret = "Ok"
    /\ last.footer.title = "Error"
    /\ "sleep" \in Range(last.ops)
    /\ app.error = None
    /\ app.command_buffer = <<"q">>
    /\ app.directory_contents # <<>>
    /\ IsSome(app.selection_index)

(* C7: the interior rectangle of the columns is the outer rectangle inset  *)
(* by one cell on every side: x + 1, y + 1, width - 2, height - 2.         *)
C7_InnerRectInsetEverySide ==
    (Called /\ IsSome(panel.inner_rect) /\ area.width >= 2 /\ area.height >= 2) =>
        LET inner == Unwrap(panel.inner_rect)
        IN  /\ inner.x = area.x + 1
            /\ inner.y = area.y + 1
            /\ inner.x + inner.width = area.x + area.width - 1
            /\ inner.y + inner.height = area.y + area.height - 1

C9_OnePolicy == Cardinality(oor_policy) <= 1

(* C10: the cursor is hidden before anything is drawn; when hiding it      *)
(* fails, draw returns the error with nothing drawn; when drawing fails,   *)
(* draw returns the error; in both cases there is no delay and the error   *)
(* field is left as it was.                                                *)
C10_IoErrorReturnsAtOnce ==
    [][DrawStep =>
          /\ last'.ops[1] = "hide_cursor"
          /\ last'.failed_at = "hide_cursor" =>
                /\ last'.ret = "Err"
                /\ last'.ops = <<"hide_cursor">>
                /\ Untouched("error")
          /\ last'.failed_at = "draw" =>
                /\ last'.ret = "Err"
                /\ "sleep" \notin Range(last'.ops)
                /\ Untouched("error")]_vars

C10_Witness ==
    /\ last.failed_at = "draw"
    /\ last.ret = "Err"
    /\ last.footer.title = "Error"
    /\ IsSome(app.error)
    /\ ~new_error

====
